---------------------------- MODULE Spec2Model ----------------------------
(***************************************************************************)
(* State-machine model of the LinkedIn job automation bot:                 *)
(*   - EmailService (src/src/services/emailService.js): the quota gate     *)
(*     (dailyEmailCount / lastEmailTime), the two send operations, the     *)
(*     daily sent-emails file;                                             *)
(*   - LinkedInBot (src/src/bot/linkedinBot.js): candidate processing,     *)
(*     and one session: initialize, start (login, search, processing,      *)
(*     report, cleanup) with a concurrent stop;                            *)
(*   - LinkedInService (src/src/config/config.js): login, searchJobs,      *)
(*     cleanup.                                                            *)
(*                                                                         *)
(* Time is the value of Date.now() in milliseconds.  The clock advances    *)
(* in steps of one minute (TickMs); a calendar day is DayMinutes minutes   *)
(* long (a scaled-down day) and the local time zone is UTC, so that        *)
(* toDateString() and toISOString().split('T')[0] name the same day.       *)
(* null (lastEmailTime, gmailPage) is 0 / FALSE; Date.now() is never 0.    *)
(***************************************************************************)
EXTENDS Integers, Sequences, FiniteSets, TLC

\* ------------------------------------------------------------------ bounds
\* largest clock value explored, in minutes
MaxTicks == 8
\* length of one calendar day, in minutes (scaled down from 24 * 60)
DayMinutes == 6
\* config.bot.maxApplicationsPerDay (MAX_APPLICATIONS_PER_DAY, default 10)
maxApplicationsPerDay == 2
\* config.bot.delayBetweenApplications in minutes (default 30)
delayBetweenApplications == 2
\* number of process restarts (new EmailService instances) explored
MaxRestarts == 1

TickMs == 60 * 1000
DayMs == DayMinutes * TickMs
MaxTime == MaxTicks * TickMs
Times == {k * TickMs : k \in 1..MaxTicks}
Days == 0..(MaxTicks \div DayMinutes)
Calls == {1, 2}
Kinds == {"job", "followup"}

VARIABLES
  now,               \* the wall clock, Date.now()
  dailyEmailCount,   \* EmailService.dailyEmailCount
  lastEmailTime,     \* EmailService.lastEmailTime, 0 for null
  isInitialized,     \* EmailService.isInitialized
  isGmailLoggedIn,   \* EmailService.isGmailLoggedIn
  gmailPage,         \* EmailService.gmailPage is a page (TRUE) or null (FALSE)
  linkedinService,   \* constructor argument has an open browser
  calls,             \* the send calls: position and result of each
  nextAllowedTime,   \* last value returned by getNextAllowedTime, 0 if none
  sentEmailsFile,    \* data/sent-emails-<day>.json: timestamps per day
  restarts,          \* number of process restarts so far
  recordedOn,        \* history: record steps of this instance, per day of lastEmailTime
  recordedEver,      \* history: record steps of all runs, per day of lastEmailTime
  successCount,      \* history: sends of this instance whose compose-and-send succeeded
  straddled,         \* history: a record step of this instance saw the date change
  lastRecordAt,      \* history: time of the latest record step of this instance, 0 if none
  lastRecordEver,    \* history: time of the latest record step of all runs, 0 if none
  botPc,             \* LinkedInBot: position of processJobs
  jobsWithEmails,    \* processJobs: the filtered candidate list
  idx,               \* processJobs: loop index i, counted from 1
  stats,             \* LinkedInBot.stats.jobs
  shouldStop,        \* LinkedInBot.shouldStop
  lastDecision,      \* history: what processIndividualJob last decided, and on what
  permittedActionable, \* history: candidates past the relevance gate while the quota gate was open
  sendInvocations,   \* history: calls of emailService.sendJobApplicationEmail by the bot
  runPc,             \* LinkedInBot: position of index.js / start()
  isRunning,         \* LinkedInBot.isRunning
  isLoggedIn,        \* LinkedInService.isLoggedIn
  page,              \* LinkedInService.page: "null", "open" or "closed"
  browser,           \* LinkedInService.browser: "null", "open" or "closed"
  kw,                \* searchJobs: the keyword the loop is at, counted from 1
  allJobs,           \* searchJobs: the posts collected so far
  startResult,       \* what start() returned: "none" while it has not
  waitUntil,         \* login: when the challenge timer fires, 0 if not set
  stopPc,            \* LinkedInBot.stop: its position
  attempts,          \* LinkedInBot.stop: the one-second waits so far
  hist,              \* history of the session: phases, closes, reports
  pureFn,            \* the function a call of a pure function is made to
  pureArgs,          \* its arguments
  pureResult,        \* what it returned
  pureDone,          \* whether it has returned
  inFlight,          \* the operation each initiator has under way on the page
  opIdx,             \* the orchestrator's place in its sequence of page operations
  movesLeft,         \* mouse moves the page load handler still has to make
  report,            \* the aggregate counts of the latest session report
  reportSnap,        \* history: counters, log and day the latest report was made from
  session,           \* LinkedInBot.stats.session, and the duration put into the report
  againPc            \* position of a start() call made while the bot is running

emailVars == <<dailyEmailCount, lastEmailTime, isInitialized, isGmailLoggedIn,
               gmailPage, linkedinService, calls, nextAllowedTime, sentEmailsFile,
               restarts, recordedOn, recordedEver, successCount, straddled,
               lastRecordAt, lastRecordEver>>

botVars == <<botPc, jobsWithEmails, idx, stats, shouldStop, lastDecision,
             permittedActionable, sendInvocations>>

runVars == <<runPc, isRunning, isLoggedIn, page, browser, kw, allJobs,
             startResult, waitUntil, stopPc, attempts, hist>>

sideVars == <<pureFn, pureArgs, pureResult, pureDone, inFlight, opIdx,
              movesLeft, report, reportSnap>>
sessVars == <<session, againPc>>
auxVars == <<sideVars, sessVars>>
vars == <<now, emailVars, botVars, runVars, auxVars>>

\* ------------------------------------------------------- pure functions
\* the calendar day a timestamp falls on (Date#toDateString)
dayOf(t) == t \div DayMs

\* EmailService.canSendEmail, with Date.now() = t
canSendEmailOffByOne(count, last, t) ==
  IF count > maxApplicationsPerDay THEN FALSE
  ELSE IF last # 0 /\ t - last < delayBetweenApplications * 60 * 1000 THEN FALSE
  ELSE TRUE

canSendEmailInclusive(count, last, t) ==
  IF count >= maxApplicationsPerDay THEN FALSE
  ELSE IF last # 0 /\ t - last <= delayBetweenApplications * 60 * 1000 THEN FALSE
  ELSE TRUE

canSendEmail(count, last, t) ==
  IF count >= maxApplicationsPerDay THEN FALSE
  ELSE IF last # 0
       THEN LET timeSinceLastEmail == t - last
                minDelay == delayBetweenApplications * 60 * 1000
            IN  IF timeSinceLastEmail < minDelay THEN FALSE ELSE TRUE
       ELSE TRUE

\* EmailService.getNextAllowedTime, with new Date() = t
getNextAllowedTimeFromNow(count, last, t) ==
  IF count >= maxApplicationsPerDay THEN (dayOf(t) + 1) * DayMs
  ELSE IF last # 0 THEN t + delayBetweenApplications * 60 * 1000
  ELSE t

getNextAllowedTime(count, last, t) ==
  IF count >= maxApplicationsPerDay
  THEN (dayOf(t) + 1) * DayMs            \* setDate(+1); setHours(0, 0, 0, 0)
  ELSE IF last # 0
       THEN last + delayBetweenApplications * 60 * 1000
       ELSE t

\* EmailService.updateEmailTracking: t1 is Date.now() of the assignment to
\* lastEmailTime, t2 >= t1 is the later new Date() it is compared with
updateEmailTrackingNoCount(count, t1, t2) ==
  [dailyEmailCount |-> IF dayOf(t1) # dayOf(t2) THEN 1 ELSE count,
   lastEmailTime   |-> t1]

updateEmailTrackingAlwaysOne(count, t1, t2) ==
  [dailyEmailCount |-> 1, lastEmailTime |-> t1]

updateEmailTracking(count, t1, t2) ==
  LET lastEmailDate == dayOf(t1)
      currentDate == dayOf(t2)
  IN  [dailyEmailCount |-> IF lastEmailDate # currentDate THEN 1 ELSE count + 1,
       lastEmailTime   |-> t1]

\* EmailService.saveSentEmail: append to the file of the day; an I/O error
\* is caught and logged, the file is then left as it was
saveSentEmail(file, t, ioOk) ==
  IF ioOk THEN [file EXCEPT ![dayOf(t)] = Append(@, t)] ELSE file

IdleCall == [pc |-> "idle", kind |-> "job", outcome |-> "none", ret |-> FALSE]

TypeOK ==
  /\ now \in Times
  /\ dailyEmailCount \in Nat
  /\ lastEmailTime \in Times \cup {0}
  /\ isInitialized \in BOOLEAN /\ isGmailLoggedIn \in BOOLEAN
  /\ gmailPage \in BOOLEAN /\ linkedinService \in BOOLEAN
  /\ \A c \in Calls :
       /\ calls[c].pc \in {"idle", "composing", "returned"}
       /\ calls[c].kind \in Kinds
       /\ calls[c].outcome \in {"none", "notInitialized", "rateLimited", "composeFailed", "sent"}
       /\ calls[c].ret \in BOOLEAN
  /\ restarts \in 0..MaxRestarts

\* ---------------------------------------------------------- LinkedInBot
\* largest number of posts one search hands to processJobs
MaxJobs == 2
\* the threshold of the relevance gate in processIndividualJob
RelevanceThreshold == 5
\* a relevanceScore that is missing or not a number
NoScore == -1
\* what the search returns for one post: the number of addresses found in
\* it; hasEmails is emails.length > 0 (extractPostData)
Job(n) == [emails |-> n, hasEmails |-> n > 0]
JobLists == UNION {[1..n -> {Job(0), Job(1)}] : n \in 0..MaxJobs}
\* what analyzeJobPost can return: the parsed JSON of the model's answer
\* (any score, or none) or the default of its error paths
DefaultAnalysis == [isLegitimate |-> TRUE, relevanceScore |-> 5]
AnalysisResults ==
  [isLegitimate : BOOLEAN, relevanceScore : {NoScore, 4, 5, 6}] \cup {DefaultAnalysis}
NoDecision == [status |-> "NONE", emails |-> 0, isLegitimate |-> FALSE,
               relevanceScore |-> NoScore]

\* history: no stop() has come while candidates were being processed
NoStop == -1

\* JavaScript's x < n for a relevanceScore: false when x is not a number
JsLessThan(x, n) == x # NoScore /\ x < n

\* jobs.filter(job => job.hasEmails)
RECURSIVE FilterHasEmails(_)
FilterHasEmails(jobs) ==
  IF jobs = <<>> THEN <<>>
  ELSE IF Head(jobs).hasEmails
       THEN <<Head(jobs)>> \o FilterHasEmails(Tail(jobs))
       ELSE FilterHasEmails(Tail(jobs))

\* the relevance gate of processIndividualJob: TRUE when the job is skipped
SkippedByGate(analysis) ==
  ~analysis.isLegitimate \/ JsLessThan(analysis.relevanceScore, RelevanceThreshold)

\* ------------------------------------------------------------------ Init
\* EmailService.constructor, at process start
EmailInit ==
  /\ dailyEmailCount = 0
  /\ lastEmailTime = 0
  /\ isInitialized = FALSE
  /\ isGmailLoggedIn = FALSE
  /\ gmailPage = FALSE
  /\ calls = [c \in Calls |-> IdleCall]
  /\ nextAllowedTime = 0
  /\ sentEmailsFile = [d \in Days |-> <<>>]
  /\ restarts = 0
  /\ recordedOn = [d \in Days |-> 0]
  /\ recordedEver = [d \in Days |-> 0]
  /\ successCount = 0
  /\ straddled = FALSE
  /\ lastRecordAt = 0
  /\ lastRecordEver = 0

\* LinkedInBot.constructor
BotInit ==
  /\ botPc = "idle"
  /\ jobsWithEmails = <<>>
  /\ idx = 1
  /\ stats = [found |-> 0, processed |-> 0, withEmails |-> 0, emailsSent |-> 0,
              errors |-> 0]
  /\ shouldStop = FALSE
  /\ lastDecision = NoDecision
  /\ permittedActionable = 0
  /\ sendInvocations = 0

\* the process before index.js calls initialize(): the LinkedInService
\* constructor and the flags of the LinkedInBot constructor
RunInit ==
  /\ runPc = "new"
  /\ isRunning = FALSE
  /\ isLoggedIn = FALSE
  /\ page = "null"
  /\ browser = "null"
  /\ kw = 1
  /\ allJobs = <<>>
  /\ startResult = "none"
  /\ waitUntil = 0
  /\ stopPc = "idle"
  /\ attempts = 0
  /\ hist = [trace |-> <<>>, loginSaw |-> "none", recheckSaw |-> "none",
             challengeWaits |-> 0, rechecks |-> 0, startCleanups |-> 0,
             pageCloses |-> 0, browserCloses |-> 0, reportCalls |-> 0,
             reports |-> 0, stopBegun |-> NoStop, stopKw |-> 0, failedKw |-> 0,
             searchChallenge |-> 0]

\* who can have an operation under way on the LinkedIn page
Initiators == {"orchestrator", "loadHandler", "cleanup"}
\* before generateSessionReport has been called
NoReport == [made |-> FALSE, found |-> 0, processed |-> 0, withEmails |-> 0,
             emailsSent |-> 0, errors |-> 0, todayCount |-> 0, remaining |-> 0]

\* no call of a pure function under study
PureIdle ==
  /\ pureFn = "none"
  /\ pureArgs = <<>>
  /\ pureResult = <<>>
  /\ pureDone = FALSE

\* the page right after initialize(): nothing under way
PageInit ==
  /\ inFlight = [i \in Initiators |-> "none"]
  /\ opIdx = 0
  /\ movesLeft = 0

\* no report generated yet
ReportInit ==
  /\ report = NoReport
  /\ reportSnap = [n |-> 0, day |-> 0, log |-> <<>>,
                   stats |-> [found |-> 0, processed |-> 0, withEmails |-> 0,
                              emailsSent |-> 0, errors |-> 0],
                   readOk |-> FALSE, repeat |-> FALSE]

\* the duration of a report that has not been made
NoDuration == -1

\* stats.session as the LinkedInBot constructor sets it (null is 0), no
\* report, no second start()
SessionInit ==
  /\ session = [startTime |-> 0, endTime |-> 0, duration |-> 0,
                reported |-> NoDuration]
  /\ againPc = "idle"

AuxInit == PureIdle /\ PageInit /\ ReportInit /\ SessionInit

\* an EmailService on its own, given any LinkedIn service
Init ==
  /\ now = TickMs
  /\ linkedinService \in BOOLEAN
  /\ EmailInit
  /\ BotInit
  /\ RunInit
  /\ AuxInit

\* the bot builds its EmailService without a LinkedIn service
InitBot ==
  /\ now = TickMs
  /\ linkedinService = FALSE
  /\ EmailInit
  /\ BotInit
  /\ RunInit
  /\ AuxInit

\* --------------------------------------------------------------- actions
\* the wall clock advances
Tick ==
  /\ now + TickMs <= MaxTime
  /\ now' = now + TickMs
  /\ UNCHANGED <<emailVars, botVars, runVars, auxVars>>

\* EmailService.initialize: openGmail, loginToGmail
EmailService_initialize ==
  /\ \E step \in {"configMissing", "newPageFails", "gotoFails", "loginFails", "ok"} :
       IF step = "configMissing" \/ ~linkedinService \/ step = "newPageFails"
       THEN UNCHANGED <<gmailPage, isGmailLoggedIn, isInitialized>>
       ELSE /\ gmailPage' = TRUE
            /\ IF step = "ok"
               THEN isGmailLoggedIn' = TRUE /\ isInitialized' = TRUE
               ELSE UNCHANGED <<isGmailLoggedIn, isInitialized>>
  /\ UNCHANGED <<botVars, runVars, auxVars>>
  /\ UNCHANGED <<now, dailyEmailCount, lastEmailTime, linkedinService, calls,
                 nextAllowedTime, sentEmailsFile, restarts, recordedOn,
                 recordedEver, successCount, straddled, lastRecordAt,
                 lastRecordEver>>

\* EmailService.cleanup: a failing page.close() is caught before the flags
\* are reset
EmailService_cleanup ==
  /\ \E closeOk \in BOOLEAN :
       IF gmailPage /\ ~closeOk
       THEN UNCHANGED <<gmailPage, isGmailLoggedIn, isInitialized>>
       ELSE /\ gmailPage' = FALSE
            /\ isInitialized' = FALSE
            /\ isGmailLoggedIn' = FALSE
  /\ UNCHANGED <<botVars, runVars, auxVars>>
  /\ UNCHANGED <<now, dailyEmailCount, lastEmailTime, linkedinService, calls,
                 nextAllowedTime, sentEmailsFile, restarts, recordedOn,
                 recordedEver, successCount, straddled, lastRecordAt,
                 lastRecordEver>>

Returned(k, o, r) == [pc |-> "returned", kind |-> k, outcome |-> o, ret |-> r]

SendHeadNoGate(c, k) ==
  /\ calls[c].pc # "composing"
  /\ IF k = "job" /\ (~isInitialized \/ ~isGmailLoggedIn)
     THEN calls' = [calls EXCEPT ![c] = Returned(k, "notInitialized", FALSE)]
     ELSE calls' = [calls EXCEPT ![c] =
                      [pc |-> "composing", kind |-> k, outcome |-> "none", ret |-> FALSE]]
  /\ UNCHANGED <<botVars, runVars, auxVars>>
  /\ UNCHANGED <<now, dailyEmailCount, lastEmailTime, isInitialized, isGmailLoggedIn,
                 gmailPage, linkedinService, sentEmailsFile, restarts, recordedOn,
                 recordedEver, successCount, straddled, lastRecordAt,
                 lastRecordEver, nextAllowedTime>>

\* the synchronous head of a send: the initialization check (job
\* applications only), the gate, and on refusal the rate-limit log
SendHead(c, k) ==
  /\ calls[c].pc # "composing"
  /\ IF k = "job" /\ (~isInitialized \/ ~isGmailLoggedIn)
     THEN /\ calls' = [calls EXCEPT ![c] = Returned(k, "notInitialized", FALSE)]
          /\ UNCHANGED nextAllowedTime
     ELSE IF ~canSendEmail(dailyEmailCount, lastEmailTime, now)
     THEN /\ calls' = [calls EXCEPT ![c] = Returned(k, "rateLimited", FALSE)]
          /\ nextAllowedTime' = getNextAllowedTime(dailyEmailCount, lastEmailTime, now)
     ELSE /\ calls' = [calls EXCEPT ![c] =
                         [pc |-> "composing", kind |-> k, outcome |-> "none", ret |-> FALSE]]
          /\ UNCHANGED nextAllowedTime
  /\ UNCHANGED <<botVars, runVars, auxVars>>
  /\ UNCHANGED <<now, dailyEmailCount, lastEmailTime, isInitialized, isGmailLoggedIn,
                 gmailPage, linkedinService, sentEmailsFile, restarts, recordedOn,
                 recordedEver, successCount, straddled, lastRecordAt,
                 lastRecordEver>>

\* the rest of a send, after composeAndSendEmail has resolved: on success
\* updateEmailTracking and (job applications only) saveSentEmail.
\* updateEmailTracking reads the clock twice (Date.now(), then new Date());
\* the second reading t2 is the first or, when the clock has moved on in
\* between, the next value
SendTail(c) ==
  /\ calls[c].pc = "composing"
  /\ \E success \in BOOLEAN, ioOk \in BOOLEAN, t2 \in {now, now + TickMs} :
       /\ t2 <= MaxTime
       /\ success => gmailPage      \* a null gmailPage makes compose fail
       /\ IF success
          THEN LET upd == updateEmailTracking(dailyEmailCount, now, t2)
               IN  /\ dailyEmailCount' = upd.dailyEmailCount
                   /\ lastEmailTime' = upd.lastEmailTime
                   /\ now' = t2
                   /\ sentEmailsFile' = IF calls[c].kind = "job"
                                        THEN saveSentEmail(sentEmailsFile, t2, ioOk)
                                        ELSE sentEmailsFile
                   /\ recordedOn' = [recordedOn EXCEPT ![dayOf(now)] = @ + 1]
                   /\ recordedEver' = [recordedEver EXCEPT ![dayOf(now)] = @ + 1]
                   /\ successCount' = successCount + 1
                   /\ straddled' = (straddled \/ dayOf(now) # dayOf(t2))
                   /\ lastRecordAt' = now
                   /\ lastRecordEver' = now
                   /\ calls' = [calls EXCEPT ![c] = Returned(calls[c].kind, "sent", TRUE)]
          ELSE /\ ioOk /\ t2 = now
               /\ calls' = [calls EXCEPT ![c] =
                              Returned(calls[c].kind, "composeFailed", FALSE)]
               /\ UNCHANGED <<now, dailyEmailCount, lastEmailTime, sentEmailsFile,
                              recordedOn, recordedEver, successCount, straddled,
                              lastRecordAt, lastRecordEver>>
  /\ UNCHANGED <<botVars, runVars, auxVars>>
  /\ UNCHANGED <<isInitialized, isGmailLoggedIn, gmailPage, linkedinService,
                 nextAllowedTime, restarts>>

\* EmailService.sendJobApplicationEmail, calls made one after another
sendJobApplicationEmail ==
  \/ SendHead(1, "job")
  \/ calls[1].kind = "job" /\ SendTail(1)

\* EmailService.sendFollowUpEmail, calls made one after another
sendFollowUpEmail ==
  \/ SendHead(1, "followup")
  \/ calls[1].kind = "followup" /\ SendTail(1)

\* a direct call of EmailService.getNextAllowedTime
getNextAllowedTimeCall ==
  /\ nextAllowedTime' = getNextAllowedTime(dailyEmailCount, lastEmailTime, now)
  /\ UNCHANGED <<botVars, runVars, auxVars>>
  /\ UNCHANGED <<now, dailyEmailCount, lastEmailTime, isInitialized, isGmailLoggedIn,
                 gmailPage, linkedinService, calls, sentEmailsFile, restarts,
                 recordedOn, recordedEver, successCount, straddled, lastRecordAt,
                 lastRecordEver>>

\* the process exits and a new one starts: new EmailService(linkedinService);
\* only the files survive
Restart ==
  /\ restarts < MaxRestarts
  /\ restarts' = restarts + 1
  /\ linkedinService' \in BOOLEAN
  /\ dailyEmailCount' = 0
  /\ lastEmailTime' = 0
  /\ isInitialized' = FALSE
  /\ isGmailLoggedIn' = FALSE
  /\ gmailPage' = FALSE
  /\ calls' = [c \in Calls |-> IdleCall]
  /\ nextAllowedTime' = 0
  /\ recordedOn' = [d \in Days |-> 0]
  /\ successCount' = 0
  /\ straddled' = FALSE
  /\ lastRecordAt' = 0
  /\ UNCHANGED <<botVars, runVars, auxVars>>
  /\ UNCHANGED <<now, sentEmailsFile, recordedEver, lastRecordEver>>

Next ==
  \/ Tick
  \/ EmailService_initialize
  \/ EmailService_cleanup
  \/ sendJobApplicationEmail
  \/ sendFollowUpEmail
  \/ getNextAllowedTimeCall

Spec == Init /\ [][Next]_vars

\* a second call of EmailService.sendJobApplicationEmail, made while the
\* first call may still be awaiting composeAndSendEmail
sendJobApplicationEmail_second ==
  \/ SendHead(2, "job")
  \/ calls[2].kind = "job" /\ SendTail(2)

\* a second call of EmailService.sendFollowUpEmail, likewise
sendFollowUpEmail_second ==
  \/ SendHead(2, "followup")
  \/ calls[2].kind = "followup" /\ SendTail(2)

\* the operations of the EmailService with up to two sends in flight
NextOverlap ==
  \/ Tick
  \/ EmailService_initialize
  \/ sendJobApplicationEmail
  \/ sendFollowUpEmail
  \/ sendJobApplicationEmail_second
  \/ sendFollowUpEmail_second

SpecOverlap == Init /\ [][NextOverlap]_vars

\* the same operations over several runs of the process
NextRestart ==
  \/ Next
  \/ Restart

SpecRestart == Init /\ [][NextRestart]_vars

\* ----------------------------------------------- LinkedInBot operations
\* LinkedInBot.processJobs up to the loop: filter the jobs, set withEmails
processJobs_begin ==
  /\ botPc = "idle"
  /\ \E jobs \in JobLists :
       /\ jobsWithEmails' = FilterHasEmails(jobs)
       /\ stats' = [stats EXCEPT !.found = Len(jobs),
                                 !.withEmails = Len(FilterHasEmails(jobs))]
  /\ idx' = 1
  /\ botPc' = "loop"
  /\ UNCHANGED <<runVars, auxVars>>
  /\ UNCHANGED <<now, emailVars, shouldStop, lastDecision, permittedActionable,
                 sendInvocations>>

\* a variant of the top of the loop that does not poll shouldStop
processJobs_nextNoPoll ==
  /\ botPc = "loop"
  /\ botPc' = IF idx > Len(jobsWithEmails) THEN "done" ELSE "analyzing"
  /\ UNCHANGED <<runVars, auxVars>>
  /\ UNCHANGED <<now, emailVars, jobsWithEmails, idx, stats, shouldStop,
                 lastDecision, permittedActionable, sendInvocations>>

\* the top of the loop of processJobs: the bound and the shouldStop poll
processJobs_next ==
  /\ botPc = "loop"
  /\ botPc' = IF idx > Len(jobsWithEmails) \/ shouldStop THEN "done" ELSE "analyzing"
  /\ UNCHANGED <<runVars, auxVars>>
  /\ UNCHANGED <<now, emailVars, jobsWithEmails, idx, stats, shouldStop,
                 lastDecision, permittedActionable, sendInvocations>>

\* a variant in which a throw of processIndividualJob ends the batch
processIndividualJobAborts ==
  /\ botPc = "analyzing"
  /\ LET job == jobsWithEmails[idx] IN
     \E analysis \in AnalysisResults, isNull \in BOOLEAN :
       IF isNull
       THEN \* the throw is counted and ends the loop
            /\ stats' = [stats EXCEPT !.errors = @ + 1]
            /\ idx' = idx + 1
            /\ botPc' = "done"
            /\ UNCHANGED <<lastDecision, permittedActionable>>
       ELSE /\ lastDecision' =
                 [status |-> IF SkippedByGate(analysis) THEN "SKIPPED"
                             ELSE IF job.emails > 0 THEN "FOUND_EMAILS"
                             ELSE "NO_EMAILS",
                  emails |-> job.emails,
                  isLegitimate |-> analysis.isLegitimate,
                  relevanceScore |-> analysis.relevanceScore]
            /\ permittedActionable' =
                 IF /\ ~SkippedByGate(analysis)
                    /\ job.emails > 0
                    /\ canSendEmail(dailyEmailCount, lastEmailTime, now)
                 THEN permittedActionable + 1
                 ELSE permittedActionable
            /\ stats' = [stats EXCEPT !.processed = @ + 1]
            /\ botPc' = "browsing"
            /\ UNCHANGED idx
  /\ UNCHANGED <<runVars, auxVars>>
  /\ UNCHANGED <<now, emailVars, jobsWithEmails, shouldStop, sendInvocations>>

\* LinkedInBot.processIndividualJob once analyzeJobPost has resolved, and
\* the processed / errors accounting of processJobs around it; the bot
\* never calls processJobEmail or the email service from here
processIndividualJob ==
  /\ botPc = "analyzing"
  /\ LET job == jobsWithEmails[idx] IN
     \E analysis \in AnalysisResults, isNull \in BOOLEAN :
       IF isNull
       THEN \* reading a field of null throws; caught and counted in processJobs
            /\ stats' = [stats EXCEPT !.errors = @ + 1]
            /\ idx' = idx + 1
            /\ botPc' = "loop"
            /\ UNCHANGED <<lastDecision, permittedActionable>>
       ELSE /\ lastDecision' =
                 [status |-> IF SkippedByGate(analysis) THEN "SKIPPED"
                             ELSE IF job.emails > 0 THEN "FOUND_EMAILS"
                             ELSE "NO_EMAILS",
                  emails |-> job.emails,
                  isLegitimate |-> analysis.isLegitimate,
                  relevanceScore |-> analysis.relevanceScore]
            /\ permittedActionable' =
                 IF /\ ~SkippedByGate(analysis)
                    /\ job.emails > 0
                    /\ canSendEmail(dailyEmailCount, lastEmailTime, now)
                 THEN permittedActionable + 1
                 ELSE permittedActionable
            /\ stats' = [stats EXCEPT !.processed = @ + 1]
            /\ botPc' = "browsing"
            /\ UNCHANGED idx
  /\ UNCHANGED <<runVars, auxVars>>
  /\ UNCHANGED <<now, emailVars, jobsWithEmails, shouldStop, sendInvocations>>

\* the delay and HumanBehavior.randomBrowsingBehavior after a job; a throw
\* of the page is caught and counted by processJobs
processJobs_browse ==
  /\ botPc = "browsing"
  /\ \E threw \in BOOLEAN :
       stats' = [stats EXCEPT !.errors = IF threw THEN @ + 1 ELSE @]
  /\ idx' = idx + 1
  /\ botPc' = "loop"
  /\ UNCHANGED <<runVars, auxVars>>
  /\ UNCHANGED <<now, emailVars, jobsWithEmails, shouldStop, lastDecision,
                 permittedActionable, sendInvocations>>

\* LinkedInBot.stop: sets the flag
stop ==
  /\ botPc \notin {"idle", "done"}
  /\ ~shouldStop
  /\ shouldStop' = TRUE
  /\ UNCHANGED <<runVars, auxVars>>
  /\ UNCHANGED <<now, emailVars, botPc, jobsWithEmails, idx, stats, lastDecision,
                 permittedActionable, sendInvocations>>

NextBot ==
  \/ processJobs_begin
  \/ processJobs_next
  \/ processIndividualJob
  \/ processJobs_browse
  \/ stop

SpecBot == InitBot /\ [][NextBot]_vars

\* ------------------------------------------------- the session: start()
\* number of keywords of config.jobSearch.keywords
NumKeywords == 2
\* the one-second waits of stop() before it forces the cleanup (30 in the code)
MaxStopAttempts == 1
\* the wait of login() for a manual resolution of a challenge, milliseconds
ChallengeWaitMs == 120000

\* where the browser can be after the login form was submitted
PageUrls == {"/feed", "/mynetwork", "/challenge", "/login"}
\* login: the URL tests of successIndicators and securityIndicators, and
\* the test of the re-check after the wait
successIndicators(url) == url \in {"/feed", "/in/", "/mynetwork", "/jobs"}
securityIndicators(url) == url \in {"/challenge", "/checkpoint", "/verify"}
finalUrlLoggedIn(url) == url \in {"/feed", "/in/"}

\* the number of candidates whose processing has begun in processJobs
Begun == IF botPc \in {"analyzing", "browsing"} THEN idx ELSE idx - 1

\* index.js main: bot.initialize(); a failure ends the process
LinkedInBot_initialize ==
  /\ runPc = "new"
  /\ \E step \in {"launchFails", "newPageFails", "setupFails", "geminiFails", "ok"} :
       /\ browser' = IF step = "launchFails" THEN "null" ELSE "open"
       /\ page' = IF step \in {"launchFails", "newPageFails"} THEN "null" ELSE "open"
       /\ runPc' = IF step = "ok" THEN "idle" ELSE "exited"
  /\ UNCHANGED auxVars
  /\ UNCHANGED <<now, emailVars, botVars>>
  /\ UNCHANGED <<isRunning, isLoggedIn, kw, allJobs, startResult, waitUntil,
                 stopPc, attempts, hist>>

\* LinkedInBot.start up to the call of login
start_begin ==
  /\ runPc = "idle"
  /\ isRunning' = TRUE
  /\ shouldStop' = FALSE
  /\ runPc' = "login"
  /\ hist' = [hist EXCEPT !.trace = Append(@, "authenticate")]
  /\ session' = [session EXCEPT !.startTime = now]
  /\ UNCHANGED <<sideVars, againPc>>
  /\ UNCHANGED <<now, emailVars, botPc, jobsWithEmails, idx, stats, lastDecision,
                 permittedActionable, sendInvocations>>
  /\ UNCHANGED <<isLoggedIn, page, browser, kw, allJobs, startResult, waitUntil,
                 stopPc, attempts>>

\* LinkedInService.login up to its first return or to the start of its
\* two-minute timer; a false return makes start() throw into its own catch
LinkedInService_login ==
  /\ runPc = "login"
  /\ \E threw \in BOOLEAN, url \in PageUrls, titleChallenge \in BOOLEAN :
       /\ page # "open" => threw
       /\ IF threw
          THEN /\ runPc' = "finally"
               /\ startResult' = "false"
               /\ hist' = [hist EXCEPT !.loginSaw = "threw"]
               /\ UNCHANGED <<isLoggedIn, waitUntil>>
          ELSE IF successIndicators(url)
          THEN /\ isLoggedIn' = TRUE
               /\ runPc' = "loggedIn"
               /\ hist' = [hist EXCEPT !.loginSaw = url]
               /\ UNCHANGED <<startResult, waitUntil>>
          ELSE IF securityIndicators(url) \/ titleChallenge
          THEN /\ runPc' = "challengeWait"
               /\ waitUntil' = now + ChallengeWaitMs
               /\ hist' = [hist EXCEPT !.loginSaw = url, !.challengeWaits = @ + 1]
               /\ UNCHANGED <<isLoggedIn, startResult>>
          ELSE /\ runPc' = "finally"
               /\ startResult' = "false"
               /\ hist' = [hist EXCEPT !.loginSaw = url]
               /\ UNCHANGED <<isLoggedIn, waitUntil>>
  /\ UNCHANGED auxVars
  /\ UNCHANGED <<now, emailVars, botVars>>
  /\ UNCHANGED <<isRunning, page, browser, kw, allJobs, stopPc, attempts>>

\* the two-minute timer of login() is running: the clock advances
login_wait ==
  /\ runPc = "challengeWait"
  /\ now < waitUntil
  /\ now' = now + TickMs
  /\ UNCHANGED <<emailVars, botVars, runVars, auxVars>>

\* a variant that starts the timer again when the challenge is still there
login_recheckWaitsAgain ==
  /\ runPc = "challengeWait"
  /\ now >= waitUntil
  /\ \E finalUrl \in PageUrls :
       IF finalUrlLoggedIn(finalUrl)
       THEN /\ isLoggedIn' = TRUE
            /\ runPc' = "loggedIn"
            /\ hist' = [hist EXCEPT !.rechecks = @ + 1, !.recheckSaw = finalUrl]
            /\ UNCHANGED <<startResult, waitUntil>>
       ELSE /\ waitUntil' = now + ChallengeWaitMs
            /\ hist' = [hist EXCEPT !.rechecks = @ + 1, !.recheckSaw = finalUrl,
                                    !.challengeWaits = @ + 1]
            /\ UNCHANGED <<isLoggedIn, runPc, startResult>>
  /\ UNCHANGED auxVars
  /\ UNCHANGED <<now, emailVars, botVars>>
  /\ UNCHANGED <<isRunning, page, browser, kw, allJobs, stopPc, attempts>>

\* LinkedInService.login once its two-minute timer has fired: the URL is
\* read again and login returns
login_recheck ==
  /\ runPc = "challengeWait"
  /\ now >= waitUntil
  /\ \E finalUrl \in PageUrls :
       IF finalUrlLoggedIn(finalUrl)
       THEN /\ isLoggedIn' = TRUE
            /\ runPc' = "loggedIn"
            /\ hist' = [hist EXCEPT !.rechecks = @ + 1, !.recheckSaw = finalUrl]
            /\ UNCHANGED startResult
       ELSE /\ runPc' = "finally"
            /\ startResult' = "false"
            /\ hist' = [hist EXCEPT !.rechecks = @ + 1, !.recheckSaw = finalUrl]
            /\ UNCHANGED isLoggedIn
  /\ UNCHANGED waitUntil
  /\ UNCHANGED auxVars
  /\ UNCHANGED <<now, emailVars, botVars>>
  /\ UNCHANGED <<isRunning, page, browser, kw, allJobs, stopPc, attempts>>

\* start() after a successful login: the delay, the keyword list, and
\* searchForJobs / searchJobs up to the keyword loop
start_searchForJobs ==
  /\ runPc = "loggedIn"
  /\ IF isLoggedIn
     THEN /\ kw' = 1
          /\ allJobs' = <<>>
          /\ runPc' = "searching"
          /\ hist' = [hist EXCEPT !.trace = Append(@, "search")]
          /\ UNCHANGED startResult
     ELSE /\ runPc' = "finally"
          /\ startResult' = "false"
          /\ UNCHANGED <<kw, allJobs, hist>>
  /\ UNCHANGED auxVars
  /\ UNCHANGED <<now, emailVars, botVars>>
  /\ UNCHANGED <<isRunning, isLoggedIn, page, browser, waitUntil, stopPc, attempts>>

\* extractJobPosts: the posts of one keyword in page order, each marked
\* with its searchKeyword
Tagged(jobs, k) ==
  [i \in 1..Len(jobs) |->
     [emails |-> jobs[i].emails, hasEmails |-> jobs[i].hasEmails,
      searchKeyword |-> k, postIndex |-> i]]

\* a variant that puts a keyword's posts in front of the earlier ones
searchJobs_keywordPrepends ==
  /\ runPc = "searching"
  /\ kw <= NumKeywords
  /\ \E threw \in BOOLEAN, challenged \in BOOLEAN, jobs \in JobLists :
       /\ page # "open" => threw
       /\ challenged => jobs = <<>>
       /\ Len(allJobs) + Len(jobs) <= MaxJobs
       /\ IF threw
          THEN /\ runPc' = "finally"
               /\ startResult' = "false"
               /\ hist' = [hist EXCEPT !.failedKw = kw, !.searchChallenge = 0]
               /\ UNCHANGED <<kw, allJobs>>
          ELSE /\ allJobs' = Tagged(jobs, kw) \o allJobs
               /\ kw' = kw + 1
               /\ hist' = [hist EXCEPT !.searchChallenge =
                                         IF challenged /\ @ = 0 THEN kw ELSE @]
               /\ UNCHANGED <<runPc, startResult>>
  /\ UNCHANGED auxVars
  /\ UNCHANGED <<now, emailVars, botVars>>
  /\ UNCHANGED <<isRunning, isLoggedIn, page, browser, waitUntil, stopPc, attempts>>

\* one iteration of the keyword loop of searchJobs, extractJobPosts
\* returning any list of posts (MaxJobs over the whole search); an error of
\* the page is rethrown by searchJobs and caught by searchForJobs, which
\* returns [], on which start() returns false.  When the navigation ends
\* on a challenge page no post is found and the loop goes on: searchJobs
\* never calls handleSecurityChallenge, so nothing waits or re-checks.
\* hist.searchChallenge is the first keyword of the running searchJobs
\* call whose page was a challenge page, 0 when there is none and outside
\* the call
searchJobs_keyword ==
  /\ runPc = "searching"
  /\ kw <= NumKeywords
  /\ \E threw \in BOOLEAN, challenged \in BOOLEAN, jobs \in JobLists :
       /\ page # "open" => threw
       /\ challenged => jobs = <<>>
       /\ Len(allJobs) + Len(jobs) <= MaxJobs
       /\ IF threw
          THEN /\ runPc' = "finally"
               /\ startResult' = "false"
               /\ hist' = [hist EXCEPT !.failedKw = kw, !.searchChallenge = 0]
               /\ UNCHANGED <<kw, allJobs>>
          ELSE /\ allJobs' = allJobs \o Tagged(jobs, kw)
               /\ kw' = kw + 1
               /\ hist' = [hist EXCEPT !.searchChallenge =
                                         IF challenged /\ @ = 0 THEN kw ELSE @]
               /\ UNCHANGED <<runPc, startResult>>
  /\ UNCHANGED auxVars
  /\ UNCHANGED <<now, emailVars, botVars>>
  /\ UNCHANGED <<isRunning, isLoggedIn, page, browser, waitUntil, stopPc, attempts>>

\* a variant that hands over the posts before the last keyword was searched
searchForJobs_returnEarly ==
  /\ runPc = "searching"
  /\ kw > 1
  /\ stats' = [stats EXCEPT !.found = Len(allJobs)]
  /\ IF Len(allJobs) = 0
     THEN runPc' = "finally" /\ startResult' = "false"
     ELSE runPc' = "searched" /\ UNCHANGED startResult
  /\ UNCHANGED auxVars
  /\ UNCHANGED <<now, emailVars, botPc, jobsWithEmails, idx, shouldStop,
                 lastDecision, permittedActionable, sendInvocations>>
  /\ hist' = [hist EXCEPT !.searchChallenge = 0]
  /\ UNCHANGED <<isRunning, isLoggedIn, page, browser, kw, allJobs, waitUntil,
                 stopPc, attempts>>

\* the keyword loop is over: searchJobs and searchForJobs return, and
\* start() returns false when nothing was found
searchForJobs_return ==
  /\ runPc = "searching"
  /\ kw > NumKeywords
  /\ stats' = [stats EXCEPT !.found = Len(allJobs)]
  /\ IF Len(allJobs) = 0
     THEN runPc' = "finally" /\ startResult' = "false"
     ELSE runPc' = "searched" /\ UNCHANGED startResult
  /\ UNCHANGED auxVars
  /\ UNCHANGED <<now, emailVars, botPc, jobsWithEmails, idx, shouldStop,
                 lastDecision, permittedActionable, sendInvocations>>
  /\ hist' = [hist EXCEPT !.searchChallenge = 0]
  /\ UNCHANGED <<isRunning, isLoggedIn, page, browser, kw, allJobs, waitUntil,
                 stopPc, attempts>>

\* start() calls processJobs with what the search returned
start_processJobs ==
  /\ runPc = "searched"
  /\ jobsWithEmails' = FilterHasEmails(allJobs)
  /\ stats' = [stats EXCEPT !.withEmails = Len(FilterHasEmails(allJobs))]
  /\ idx' = 1
  /\ botPc' = "loop"
  /\ runPc' = "processing"
  /\ hist' = [hist EXCEPT !.trace = Append(@, "process")]
  /\ UNCHANGED auxVars
  /\ UNCHANGED <<now, emailVars, shouldStop, lastDecision, permittedActionable,
                 sendInvocations>>
  /\ UNCHANGED <<isRunning, isLoggedIn, page, browser, kw, allJobs, startResult,
                 waitUntil, stopPc, attempts>>

\* LinkedInBot.generateSessionReport after processJobs has returned; an
\* error of the file system is caught and no file is written
start_generateSessionReport ==
  /\ runPc = "processing"
  /\ botPc = "done"
  /\ \E writeOk \in BOOLEAN :
       /\ hist' = [hist EXCEPT !.reportCalls = @ + 1,
                               !.reports = IF writeOk THEN @ + 1 ELSE @,
                               !.trace = Append(@, "report")]
       /\ session' = [session EXCEPT
                        !.reported = IF writeOk THEN session.duration ELSE @]
  /\ runPc' = "finally"
  /\ startResult' = "true"
  /\ UNCHANGED <<sideVars, againPc>>
  /\ UNCHANGED <<now, emailVars, botVars>>
  /\ UNCHANGED <<isRunning, isLoggedIn, page, browser, kw, allJobs, waitUntil,
                 stopPc, attempts>>

\* a variant of the finally block that returns without the cleanup
start_finallySkipsCleanup ==
  /\ runPc = "finally"
  /\ isRunning' = FALSE
  /\ runPc' = "returned"
  /\ session' = [session EXCEPT !.endTime = now, !.duration = now - session.startTime]
  /\ UNCHANGED <<sideVars, againPc>>
  /\ UNCHANGED <<now, emailVars, botVars>>
  /\ UNCHANGED <<isLoggedIn, page, browser, kw, allJobs, startResult, waitUntil,
                 stopPc, attempts, hist>>

\* the finally block of start() up to its call of cleanup
start_finally ==
  /\ runPc = "finally"
  /\ isRunning' = FALSE
  /\ runPc' = "cleanup"
  /\ session' = [session EXCEPT !.endTime = now, !.duration = now - session.startTime]
  /\ UNCHANGED <<sideVars, againPc>>
  /\ UNCHANGED <<now, emailVars, botVars>>
  /\ UNCHANGED <<isLoggedIn, page, browser, kw, allJobs, startResult, waitUntil,
                 stopPc, attempts, hist>>

\* LinkedInService.cleanup: page.close() and browser.close() on whatever is
\* not null, neither field is reset; an error of page.close() is caught
\* before browser.close() is reached
LinkedInService_cleanup(closeThrows) ==
  /\ page' = IF page = "null" \/ closeThrows THEN page ELSE "closed"
  /\ browser' = IF browser = "null" \/ (page # "null" /\ closeThrows)
                THEN browser ELSE "closed"

\* the close calls one LinkedInBot.cleanup adds to the history; the bot's
\* EmailService has no Gmail page, its cleanup closes nothing
closeCalls(h, closeThrows) ==
  [h EXCEPT !.pageCloses = IF page # "null" THEN @ + 1 ELSE @,
            !.browserCloses = IF browser # "null" /\ ~(page # "null" /\ closeThrows)
                              THEN @ + 1 ELSE @]

\* LinkedInBot.cleanup at the end of the finally block; start() returns
start_cleanup ==
  /\ runPc = "cleanup"
  /\ \E closeThrows \in BOOLEAN :
       /\ LinkedInService_cleanup(closeThrows)
       /\ hist' = [closeCalls(hist, closeThrows) EXCEPT
                     !.startCleanups = @ + 1, !.trace = Append(@, "release")]
  /\ runPc' = "returned"
  /\ UNCHANGED auxVars
  /\ UNCHANGED <<now, emailVars, botVars>>
  /\ UNCHANGED <<isRunning, isLoggedIn, kw, allJobs, startResult, waitUntil,
                 stopPc, attempts>>

\* LinkedInBot.stop up to its wait loop
stop_begin ==
  /\ stopPc = "idle"
  /\ runPc \notin {"new", "exited"}
  /\ shouldStop' = TRUE
  /\ stopPc' = "waiting"
  /\ attempts' = 0
  /\ hist' = [hist EXCEPT
                !.stopBegun = IF runPc = "processing" THEN Begun ELSE @,
                !.stopKw = IF runPc = "searching" THEN kw ELSE @]
  /\ UNCHANGED auxVars
  /\ UNCHANGED <<now, emailVars, botPc, jobsWithEmails, idx, stats, lastDecision,
                 permittedActionable, sendInvocations>>
  /\ UNCHANGED <<runPc, isRunning, isLoggedIn, page, browser, kw, allJobs,
                 startResult, waitUntil>>

\* one round of the wait loop of stop()
stop_wait ==
  /\ stopPc = "waiting"
  /\ isRunning
  /\ attempts < MaxStopAttempts
  /\ attempts' = attempts + 1
  /\ UNCHANGED auxVars
  /\ UNCHANGED <<now, emailVars, botVars>>
  /\ UNCHANGED <<runPc, isRunning, isLoggedIn, page, browser, kw, allJobs,
                 startResult, waitUntil, stopPc, hist>>

\* stop() after its wait loop: the forced cleanup if the bot still runs
stop_end ==
  /\ stopPc = "waiting"
  /\ ~(isRunning /\ attempts < MaxStopAttempts)
  /\ IF isRunning
     THEN \E closeThrows \in BOOLEAN :
            /\ LinkedInService_cleanup(closeThrows)
            /\ hist' = closeCalls(hist, closeThrows)
     ELSE UNCHANGED <<page, browser, hist>>
  /\ stopPc' = "returned"
  /\ UNCHANGED auxVars
  /\ UNCHANGED <<now, emailVars, botVars>>
  /\ UNCHANGED <<runPc, isRunning, isLoggedIn, kw, allJobs, startResult,
                 waitUntil, attempts>>

\* one session of the bot as index.js runs it, with a stop() that may
\* arrive at any moment
NextRun ==
  \/ LinkedInBot_initialize
  \/ start_begin
  \/ LinkedInService_login
  \/ login_wait
  \/ login_recheck
  \/ start_searchForJobs
  \/ searchJobs_keyword
  \/ searchForJobs_return
  \/ start_processJobs
  \/ processJobs_next
  \/ processIndividualJob
  \/ processJobs_browse
  \/ start_generateSessionReport
  \/ start_finally
  \/ start_cleanup
  \/ stop_begin
  \/ stop_wait
  \/ stop_end

SpecRun == InitBot /\ [][NextRun]_vars

\* a second call of LinkedInBot.start() while the bot is running: the
\* isRunning test returns false from inside the try block, so the finally
\* block runs, up to its call of cleanup
start_again ==
  /\ againPc = "idle"
  /\ isRunning
  /\ isRunning' = FALSE
  /\ session' = [session EXCEPT !.endTime = now, !.duration = now - session.startTime]
  /\ againPc' = "cleanup"
  /\ UNCHANGED sideVars
  /\ UNCHANGED <<now, emailVars, botVars>>
  /\ UNCHANGED <<runPc, isLoggedIn, page, browser, kw, allJobs, startResult,
                 waitUntil, stopPc, attempts, hist>>

\* the cleanup awaited by the finally block of the second call, which then
\* returns false
start_againCleanup ==
  /\ againPc = "cleanup"
  /\ \E closeThrows \in BOOLEAN :
       /\ LinkedInService_cleanup(closeThrows)
       /\ hist' = closeCalls(hist, closeThrows)
  /\ againPc' = "returned"
  /\ UNCHANGED <<sideVars, session>>
  /\ UNCHANGED <<now, emailVars, botVars>>
  /\ UNCHANGED <<runPc, isRunning, isLoggedIn, kw, allJobs, startResult,
                 waitUntil, stopPc, attempts>>

\* one session of the bot, with a second start() that may arrive at any
\* moment of it
NextAgain ==
  \/ LinkedInBot_initialize
  \/ start_begin
  \/ LinkedInService_login
  \/ login_wait
  \/ login_recheck
  \/ start_searchForJobs
  \/ searchJobs_keyword
  \/ searchForJobs_return
  \/ start_processJobs
  \/ processJobs_next
  \/ processIndividualJob
  \/ processJobs_browse
  \/ start_generateSessionReport
  \/ start_finally
  \/ start_cleanup
  \/ start_again
  \/ start_againCleanup

SpecAgain == InitBot /\ [][NextAgain]_vars

\* ------------------------------------------- operations on the shared page
\* most mouse moves one run of the page load handler makes (3 to 7 in the code)
MaxMoves == 2

\* the page operations start() awaits one after the other: login (goto,
\* typing, click, waitForNavigation), then a keyword's search (goto, scroll)
orchestratorOps == <<"goto", "type", "click", "waitForNavigation", "goto", "scroll">>
\* the operations during which the page can fire 'load'
Navigations == {"goto", "waitForNavigation"}

\* the orchestrator calls its next page operation and awaits it
orchestrator_begin ==
  /\ inFlight["orchestrator"] = "none"
  /\ opIdx < Len(orchestratorOps)
  /\ opIdx' = opIdx + 1
  /\ inFlight' = [inFlight EXCEPT !["orchestrator"] = orchestratorOps[opIdx + 1]]
  /\ UNCHANGED sessVars
  /\ UNCHANGED <<now, emailVars, botVars, runVars>>
  /\ UNCHANGED <<pureFn, pureArgs, pureResult, pureDone, movesLeft, report, reportSnap>>

\* the awaited operation resolves or rejects
orchestrator_end ==
  /\ inFlight["orchestrator"] # "none"
  /\ inFlight' = [inFlight EXCEPT !["orchestrator"] = "none"]
  /\ UNCHANGED sessVars
  /\ UNCHANGED <<now, emailVars, botVars, runVars>>
  /\ UNCHANGED <<pureFn, pureArgs, pureResult, pureDone, opIdx, movesLeft, report,
                 reportSnap>>

\* the 'load' event of a navigation: the handler registered by initialize()
\* calls addRandomMouseMovements, which chooses its number of moves and
\* calls page.mouse.move
page_load ==
  /\ inFlight["orchestrator"] \in Navigations
  /\ inFlight["cleanup"] # "closed"
  /\ inFlight["loadHandler"] = "none"
  /\ movesLeft = 0
  /\ \E movements \in 1..MaxMoves : movesLeft' = movements
  /\ inFlight' = [inFlight EXCEPT !["loadHandler"] = "mouse.move"]
  /\ UNCHANGED sessVars
  /\ UNCHANGED <<now, emailVars, botVars, runVars>>
  /\ UNCHANGED <<pureFn, pureArgs, pureResult, pureDone, opIdx, report, reportSnap>>

\* addRandomMouseMovements: a move ends (a rejection ends the whole loop)
\* and the delay before the next one begins
addRandomMouseMovements_moveEnd ==
  /\ inFlight["loadHandler"] = "mouse.move"
  /\ inFlight' = [inFlight EXCEPT !["loadHandler"] = "none"]
  /\ \E threw \in BOOLEAN : movesLeft' = IF threw THEN 0 ELSE movesLeft - 1
  /\ UNCHANGED sessVars
  /\ UNCHANGED <<now, emailVars, botVars, runVars>>
  /\ UNCHANGED <<pureFn, pureArgs, pureResult, pureDone, opIdx, report, reportSnap>>

\* addRandomMouseMovements: the delay is over, the next move begins
addRandomMouseMovements_moveBegin ==
  /\ inFlight["loadHandler"] = "none"
  /\ movesLeft > 0
  /\ inFlight' = [inFlight EXCEPT !["loadHandler"] = "mouse.move"]
  /\ UNCHANGED sessVars
  /\ UNCHANGED <<now, emailVars, botVars, runVars>>
  /\ UNCHANGED <<pureFn, pureArgs, pureResult, pureDone, opIdx, movesLeft, report,
                 reportSnap>>

\* the forced cleanup of stop(), or the cleanup of a process-level error
\* handler, calls page.close() whatever start() is awaiting
cleanup_closeBegin ==
  /\ inFlight["cleanup"] = "none"
  /\ opIdx > 0
  /\ inFlight' = [inFlight EXCEPT !["cleanup"] = "close"]
  /\ UNCHANGED sessVars
  /\ UNCHANGED <<now, emailVars, botVars, runVars>>
  /\ UNCHANGED <<pureFn, pureArgs, pureResult, pureDone, opIdx, movesLeft, report,
                 reportSnap>>

\* page.close() has resolved
cleanup_closeEnd ==
  /\ inFlight["cleanup"] = "close"
  /\ inFlight' = [inFlight EXCEPT !["cleanup"] = "closed"]
  /\ UNCHANGED sessVars
  /\ UNCHANGED <<now, emailVars, botVars, runVars>>
  /\ UNCHANGED <<pureFn, pureArgs, pureResult, pureDone, opIdx, movesLeft, report,
                 reportSnap>>

NextPage ==
  \/ orchestrator_begin
  \/ orchestrator_end
  \/ page_load
  \/ addRandomMouseMovements_moveBegin
  \/ addRandomMouseMovements_moveEnd
  \/ cleanup_closeBegin
  \/ cleanup_closeEnd

SpecPage == InitBot /\ [][NextPage]_vars

\* ------------------------------------------------------ the quota gate
\* the cooldown in milliseconds and the gate as the specification words it
CooldownMs == delayBetweenApplications * 60 * 1000
GateAsSpecified ==
  IF dailyEmailCount >= maxApplicationsPerDay THEN FALSE
  ELSE IF lastEmailTime # 0 /\ now - lastEmailTime < CooldownMs THEN FALSE
  ELSE TRUE

\* C1: within one instance and one calendar day at most maxApplicationsPerDay
\* sends are recorded, and once that many are recorded on the current day
\* canSendEmail is false at every instant of the rest of that day
C1_DailyLimitHolds ==
  /\ \A d \in Days : recordedOn[d] <= maxApplicationsPerDay
  /\ recordedOn[dayOf(now)] >= maxApplicationsPerDay
       => ~canSendEmail(dailyEmailCount, lastEmailTime, now)

\* the limit is reached today, the cooldown is over, and a send was refused
C1_Witness ==
  /\ recordedOn[dayOf(now)] = maxApplicationsPerDay
  /\ now - lastEmailTime >= CooldownMs
  /\ calls[1].outcome = "rateLimited"

\* C2: on a later calendar day than the last recorded send, with the
\* cooldown over, canSendEmail is true again (the count restarted from 0)
C2_RolloverReopensGate ==
  (lastRecordAt # 0 /\ dayOf(now) > dayOf(lastRecordAt)
     /\ now - lastRecordAt >= CooldownMs)
    => canSendEmail(dailyEmailCount, lastEmailTime, now)

\* C3: after a record step at time t that leaves the count below the limit,
\* canSendEmail is false at every now < t + cooldown and true from then on
C3_CooldownWindow ==
  (lastRecordAt # 0 /\ dailyEmailCount < maxApplicationsPerDay)
    => (canSendEmail(dailyEmailCount, lastEmailTime, now)
          <=> now >= lastRecordAt + CooldownMs)

\* a send is admitted at the very instant the cooldown ends
C3_Witness ==
  /\ lastRecordAt # 0
  /\ dailyEmailCount < maxApplicationsPerDay
  /\ now = lastRecordAt + CooldownMs
  /\ calls[1].pc = "composing"

\* C4 as stated: in every state dailyEmailCount is the number of sends whose
\* compose-and-send succeeded
C4_CountIsSuccessCount == dailyEmailCount = successCount

\* C4 amended: the counters change only in the step that ends a successful
\* send, that step records exactly once (lastEmailTime = the time of the
\* step, the count one more or restarted at 1), and the count is the number
\* of successful sends unless a record step saw the date change, when it
\* is smaller
C4_RecordOncePerSuccess ==
  [][/\ <<dailyEmailCount, lastEmailTime>>' # <<dailyEmailCount, lastEmailTime>>
          => \E c \in Calls : /\ calls[c].pc = "composing"
                              /\ calls'[c].outcome = "sent"
     /\ \A c \in Calls :
          (calls[c].pc = "composing" /\ calls'[c].pc = "returned")
            => IF calls'[c].ret
               THEN /\ successCount' = successCount + 1
                    /\ lastEmailTime' = now
                    /\ dailyEmailCount' \in {dailyEmailCount + 1, 1}
               ELSE /\ successCount' = successCount
                    /\ UNCHANGED <<dailyEmailCount, lastEmailTime>>
     /\ dailyEmailCount' <= successCount'
     /\ ~straddled' => dailyEmailCount' = successCount'
    ]_vars

\* a failed send after a recorded one left the count at the successes
C4_Witness ==
  /\ calls[1].outcome = "composeFailed"
  /\ successCount >= 1
  /\ dailyEmailCount = successCount

\* C5: whenever a send consults the gate, it is admitted exactly when the
\* count is below the limit and no cooldown is running
C5_GateDecision ==
  [][\A k \in Kinds :
       (SendHead(1, k) /\ ~(k = "job" /\ (~isInitialized \/ ~isGmailLoggedIn)))
         => /\ (calls'[1].pc = "composing") = GateAsSpecified
            /\ (calls'[1].outcome = "rateLimited") = ~GateAsSpecified
    ]_vars

\* a send refused by the cooldown alone
C5_Witness ==
  /\ calls[1].outcome = "rateLimited"
  /\ dailyEmailCount < maxApplicationsPerDay
  /\ lastEmailTime # 0
  /\ now - lastEmailTime < CooldownMs

\* C6: getNextAllowedTime returns 00:00 of the next calendar day when the
\* limit is reached, else lastEmailTime + cooldown after a prior action,
\* else the current time
C6_NextAllowedTime ==
  [][(\/ getNextAllowedTimeCall
      \/ \E k \in Kinds : SendHead(1, k) /\ calls'[1].outcome = "rateLimited")
       => IF dailyEmailCount >= maxApplicationsPerDay
          THEN /\ nextAllowedTime' % DayMs = 0
               /\ nextAllowedTime' > now
               /\ nextAllowedTime' - now <= DayMs
          ELSE IF lastEmailTime # 0
               THEN nextAllowedTime' = lastEmailTime + CooldownMs
               ELSE nextAllowedTime' = now
    ]_vars

\* the answer is the end of a cooldown that started before now
C6_Witness ==
  /\ lastEmailTime # 0
  /\ dailyEmailCount < maxApplicationsPerDay
  /\ now > lastEmailTime
  /\ nextAllowedTime = lastEmailTime + CooldownMs

\* C7: a job application made while the gate is closed returns false, is
\* not an exception, never reaches compose-and-send and leaves the quota
\* counters, the success count and the file as they were
C7_RefusalIsQuiet ==
  [][(SendHead(1, "job") /\ isInitialized /\ isGmailLoggedIn /\ ~GateAsSpecified)
       => /\ calls'[1].pc = "returned"
          /\ calls'[1].ret = FALSE
          /\ calls'[1].outcome = "rateLimited"
          /\ UNCHANGED <<dailyEmailCount, lastEmailTime, successCount, sentEmailsFile>>
    ]_vars

\* a job application refused because the daily limit is reached
C7_Witness ==
  /\ calls[1] = Returned("job", "rateLimited", FALSE)
  /\ isInitialized /\ isGmailLoggedIn
  /\ dailyEmailCount >= maxApplicationsPerDay

\* C8: a freshly started process has the count and the last action time
\* that earlier runs recorded on the current day, so that no day sees more
\* than maxApplicationsPerDay recorded sends over all runs
C8_QuotaSurvivesRestart ==
  /\ (restarts > 0 /\ \A c \in Calls : calls[c].pc = "idle")
       => /\ dailyEmailCount = recordedEver[dayOf(now)]
          /\ recordedEver[dayOf(now)] > 0 => lastEmailTime = lastRecordEver
  /\ \A d \in Days : recordedEver[d] <= maxApplicationsPerDay

\* C9: when processJobs is over, the bot has called the send operation once
\* for every candidate that passed the relevance gate while the quota gate
\* was open
C9_OneSendPerPermittedCandidate ==
  botPc = "done" => sendInvocations = permittedActionable

\* C10: a candidate is carried past the relevance gate as one with
\* addresses only if isLegitimate is true, its relevanceScore is a number
\* >= 5 and it has at least one address
C10_ActionableOnlyIfRelevant ==
  lastDecision.status = "FOUND_EMAILS"
    => /\ lastDecision.isLegitimate = TRUE
       /\ lastDecision.relevanceScore # NoScore
       /\ lastDecision.relevanceScore >= RelevanceThreshold
       /\ lastDecision.emails > 0

\* ------------------------------------------------- the session's phases
\* the place of a phase in the order the specification gives
PhaseRank(p) ==
  CASE p = "authenticate" -> 1
    [] p = "search" -> 2
    [] p = "process" -> 3
    [] p = "report" -> 4
    [] p = "release" -> 5
InTrace(p) == \E i \in 1..Len(hist.trace) : hist.trace[i] = p
StartIsOver == runPc \in {"finally", "cleanup", "returned"}

C13_FailedLoginIsReported ==
  (runPc = "returned" /\ ~isLoggedIn)
    => /\ startResult = "false"
       /\ stats.processed = 0
       /\ hist.reportCalls >= 1

\* C14: over a session the page and the browser are each closed at most
\* once, whoever runs the cleanup
C14_ReleaseAtMostOnce ==
  /\ hist.pageCloses <= 1
  /\ hist.browserCloses <= 1

\* C15: start() has run its cleanup exactly once when it returns, it
\* returns true or false, and every outcome it settles on is followed by
\* the finally block
C15_CleanupBeforeReturn ==
  /\ runPc = "returned" => hist.startCleanups = 1 /\ startResult \in {"true", "false"}
  /\ runPc # "returned" => hist.startCleanups = 0
  /\ startResult # "none" => StartIsOver
  /\ StartIsOver => startResult # "none"

C15_Witness ==
  /\ runPc = "returned"
  /\ hist.loginSaw = "threw"
  /\ startResult = "false"
  /\ hist.startCleanups = 1
  /\ hist.pageCloses = 1

\* C16: once stop() has set shouldStop during processJobs, no further
\* candidate is begun, the candidate in flight runs to its end, and what
\* start() does next is the report and then the cleanup
C16_StopEndsProcessing ==
  /\ hist.stopBegun # NoStop => shouldStop /\ Begun = hist.stopBegun
  /\ (hist.stopBegun # NoStop /\ botPc = "done") => idx = hist.stopBegun + 1
  /\ (hist.stopBegun # NoStop /\ runPc # "processing")
       => StartIsOver /\ hist.reportCalls = 1 /\ startResult = "true"
  /\ (hist.stopBegun # NoStop /\ runPc = "returned") => hist.startCleanups = 1

C16_Witness ==
  /\ hist.stopBegun = 1
  /\ Len(jobsWithEmails) = 2
  /\ stats.processed = 1
  /\ runPc = "returned"
  /\ hist.reportCalls = 1

\* C17: once stop() has set shouldStop during the search, at most the
\* keyword in flight is still searched
C17_StopEndsSearch ==
  hist.stopKw # 0 => kw <= hist.stopKw + 1

\* C18: a throw of processIndividualJob adds exactly one to the error
\* counter and nothing to the processed counter, the loop goes on with the
\* next candidate, and without a stop the loop ends only after the last
\* candidate
C18_ErrorDoesNotAbortBatch ==
  /\ [][(botPc = "analyzing" /\ botPc' # "browsing" /\ botPc' # "analyzing")
          => /\ stats'.errors = stats.errors + 1
             /\ stats'.processed = stats.processed
             /\ idx' = idx + 1
             /\ jobsWithEmails' = jobsWithEmails
             /\ botPc' = "loop"]_vars
  /\ [][(botPc = "loop" /\ botPc' # "loop")
          => (botPc' = "analyzing" <=> (idx <= Len(jobsWithEmails) /\ ~shouldStop))]_vars
  /\ []((botPc = "done" /\ ~shouldStop) => idx = Len(jobsWithEmails) + 1)

C18_Witness ==
  /\ botPc = "browsing"
  /\ idx = 2
  /\ stats.errors = 1
  /\ stats.processed = 1

\* C19: when the search of one keyword has failed, the other keywords
\* have still been searched and the posts collected are counted as found
\* and handed to processJobs
C19_FailedKeywordIsSkipped ==
  (hist.failedKw # 0 /\ runPc = "returned")
    => /\ kw > NumKeywords
       /\ stats.found = Len(allJobs)
       /\ (allJobs # <<>> => InTrace("process"))

\* C20: when every keyword has been searched, start() returns only after
\* one session report was generated and written
C20_ReportAfterSearch ==
  (runPc = "returned" /\ kw > NumKeywords /\ hist.failedKw = 0)
    => /\ InTrace("process")
       /\ hist.reportCalls = 1

\* ------------------------------------------------ functions of one call
\* longest text, in words
MaxWords == 3
\* largest duration handed to randomDelay
MaxDelay == 3

\* the words of a text: addresses as they are written, and a word that is
\* no address
Words == {"hr@acme.com", "HR@acme.com", "jobs@acme.com", "noreply@acme.com",
          "No-Reply@acme.com", "apply"}
Texts == UNION {[1..n -> Words] : n \in 0..MaxWords}

\* the words emailRegex matches
matchesEmailRegex(w) == w # "apply"

\* String.prototype.toLowerCase on the words
toLowerCase(w) ==
  CASE w = "HR@acme.com" -> "hr@acme.com"
    [] w = "No-Reply@acme.com" -> "no-reply@acme.com"
    [] OTHER -> w

\* the filter of extractEmails: the lowered address includes none of
\* 'noreply', 'no-reply', 'donotreply'
notDenied(email) ==
  LET lowerEmail == toLowerCase(email)
  IN  lowerEmail \notin {"noreply@acme.com", "no-reply@acme.com"}

\* [...new Set(list)]: first occurrences in order; strings are equal to a
\* Set when they are the same characters
RECURSIVE spreadOfSet(_)
spreadOfSet(list) ==
  IF list = <<>> THEN <<>>
  ELSE LET front == spreadOfSet(SubSeq(list, 1, Len(list) - 1))
           last == list[Len(list)]
       IN  IF \E i \in 1..Len(front) : front[i] = last
           THEN front
           ELSE Append(front, last)

\* LinkedInService.extractEmails
extractEmails(text) ==
  LET emails == SelectSeq(text, matchesEmailRegex)
      filteredEmails == SelectSeq(emails, notDenied)
  IN  spreadOfSet(filteredEmails)

\* a function of SpecPure has returned value v, or has thrown
Value(v) == [threw |-> FALSE, value |-> v]
Thrown == [threw |-> TRUE, value |-> <<>>]

\* the answers of the model to the analysis prompt: text that JSON.parse
\* accepts (as null or as an object) or rejects
Responses ==
  {[parses |-> p, isNull |-> n, analysis |-> a] :
     p \in BOOLEAN, n \in BOOLEAN, a \in AnalysisResults}

\* a variant whose outer catch rethrows
analyzeJobPostRethrows(callThrows, response) ==
  IF callThrows
  THEN Thrown
  ELSE IF response.parses
  THEN Value([isNull |-> response.isNull, analysis |-> response.analysis])
  ELSE Value([isNull |-> FALSE, analysis |-> DefaultAnalysis])

\* GeminiService.analyzeJobPost: generateContent throws or answers; the
\* answer is parsed, and both catch blocks return the default
analyzeJobPost(callThrows, response) ==
  IF callThrows
  THEN Value([isNull |-> FALSE, analysis |-> DefaultAnalysis])
  ELSE IF response.parses
  THEN Value([isNull |-> response.isNull, analysis |-> response.analysis])
  ELSE Value([isNull |-> FALSE, analysis |-> DefaultAnalysis])

\* the job data handed to the generator (object literals, linkedinBot.js)
JobDatas == [position : {"", "Backend Engineer"}, company : {"", "Acme"}]
\* what response.text() yields: text with Subject: and Body: lines, text
\* without them, the empty string, or no string at all
EmailContents == {"structured", "plain", "empty", "notAString"}

\* GeminiService.getFallbackEmail
getFallbackEmail(jobData) ==
  [subject |-> IF jobData.position # "" THEN jobData.position
               ELSE "Software Developer Position",
   body |-> "template",
   isFallback |-> TRUE]

\* GeminiService.parseEmailResponse: split throws on what is no string, and
\* the catch block throws in turn, jobData being no name in its scope
parseEmailResponse(emailContent) ==
  IF emailContent = "notAString"
  THEN Thrown
  ELSE Value([subject |-> IF emailContent = "empty"
                          THEN "Application for Software Developer Position"
                          ELSE "generated",
              body |-> IF emailContent = "empty" THEN "" ELSE "generated",
              isFallback |-> FALSE])

\* a variant without the catch block
generateJobApplicationEmailNoCatch(jobData, callThrows, emailContent) ==
  IF callThrows
  THEN Thrown
  ELSE parseEmailResponse(emailContent)

\* GeminiService.generateJobApplicationEmail
generateJobApplicationEmail(jobData, callThrows, emailContent) ==
  IF callThrows \/ parseEmailResponse(emailContent).threw
  THEN Value(getFallbackEmail(jobData))
  ELSE parseEmailResponse(emailContent)

\* Math.random() is k / RandomSteps, 0 <= k < RandomSteps
RandomSteps == 2 * (MaxDelay + 2)
RandomValues == 0..(RandomSteps - 1)

\* a variant without the + 1
randomDelayExclusive(min, max, k) ==
  ((k * (max - min)) \div RandomSteps) + min

\* HumanBehavior.randomDelay: the duration it waits
randomDelay(min, max, k) ==
  ((k * (max - min + 1)) \div RandomSteps) + min

\* most post containers on a result page
MaxUnits == 2
\* config.linkedin.maxSearchResults (MAX_SEARCH_RESULTS, default 10)
maxSearchResults == 1

\* the text of a post: a phrase, followed by pad characters that hold no
\* letters; "" with no padding is a post without text
Phrases == {"", "Hiring", "hiring React", "REACT", "cat"}
PostContents == [phrase : Phrases, pad : {0, 94, 95}]
SearchKeywords == {"React", "react"}

\* String.prototype.length of the phrases
phraseLength(ph) ==
  CASE ph = "" -> 0
    [] ph = "Hiring" -> 6
    [] ph = "hiring React" -> 12
    [] ph = "REACT" -> 5
    [] ph = "cat" -> 3
    [] ph = "React" -> 5
    [] ph = "react" -> 5

\* String.prototype.toLowerCase on the phrases and keywords
lowerPhrase(ph) ==
  CASE ph = "Hiring" -> "hiring"
    [] ph = "hiring React" -> "hiring react"
    [] ph = "REACT" -> "react"
    [] ph = "React" -> "react"
    [] OTHER -> ph

\* String.prototype.includes between phrases, compared as they are written
phraseIncludes(ph, part) ==
  \/ part = ""
  \/ ph = part
  \/ ph = "hiring React" /\ part \in {"hiring", "React"}
  \/ ph = "hiring react" /\ part \in {"hiring", "react"}
  \/ ph = "Hiring" /\ part = "iring"

contentLength(content) == phraseLength(content.phrase) + content.pad

\* the indicators of isRelevantJobPost that occur in the phrases
jobIndicators == {"hiring"}

\* a variant that looks for the keyword as it is written
isRelevantJobPostCaseSensitive(content, searchKeyword) ==
  LET lowerContent == lowerPhrase(content.phrase)
      hasJobIndicator == \E indicator \in jobIndicators :
                           phraseIncludes(lowerContent, lowerPhrase(indicator))
      hasSearchKeyword == phraseIncludes(content.phrase, searchKeyword)
  IN  hasJobIndicator /\ (hasSearchKeyword \/ contentLength(content) > 100)

\* LinkedInService.isRelevantJobPost
isRelevantJobPost(content, searchKeyword) ==
  LET lowerContent == lowerPhrase(content.phrase)
      hasJobIndicator == \E indicator \in jobIndicators :
                           phraseIncludes(lowerContent, lowerPhrase(indicator))
      hasSearchKeyword == phraseIncludes(lowerContent, lowerPhrase(searchKeyword))
  IN  hasJobIndicator /\ (hasSearchKeyword \/ contentLength(content) > 100)

\* LinkedInService.extractPostData: null for a post without text
extractPostData(content) ==
  IF contentLength(content) = 0
  THEN [isNull |-> TRUE, content |-> content]
  ELSE [isNull |-> FALSE, content |-> content]

\* LinkedInService.extractJobPosts on the post containers of a page: the
\* loop over the first maxSearchResults containers
RECURSIVE extractJobPostsUpTo(_, _, _)
extractJobPostsUpTo(postContainers, searchKeyword, n) ==
  IF n = 0 THEN <<>>
  ELSE LET jobs == extractJobPostsUpTo(postContainers, searchKeyword, n - 1)
           postData == extractPostData(postContainers[n])
       IN  IF ~postData.isNull /\ isRelevantJobPost(postData.content, searchKeyword)
           THEN Append(jobs, [content |-> postData.content,
                              searchKeyword |-> searchKeyword, postIndex |-> n])
           ELSE jobs

extractJobPosts(postContainers, searchKeyword) ==
  extractJobPostsUpTo(postContainers, searchKeyword,
                      IF Len(postContainers) < maxSearchResults
                      THEN Len(postContainers) ELSE maxSearchResults)

\* longest text typed
MaxChars == 2

\* characters by their UTF-16 code: the space, a, b
CharCodes == {32, 97, 98}
TypedTexts == UNION {[1..n -> CharCodes] : n \in 0..MaxChars}

\* what the keyboard and the timer are asked to do
TypeEvent(c) == [op |-> "type", char |-> c]
PressBackspace == [op |-> "press", char |-> 0]
SelectAll == [op |-> "selectAll", char |-> 0]
Pause == [op |-> "pause", char |-> 0]

\* String.fromCharCode(char.charCodeAt(0) + 1)
wrongChar(char) == (char + 1) % 65536

\* a variant that leaves the wrong character in place
typeCharKeepsTypo(char, typo, longPause) ==
  (IF typo /\ char # 32
   THEN <<TypeEvent(wrongChar(char)), Pause, Pause, TypeEvent(char)>>
   ELSE <<TypeEvent(char)>>)
  \o <<Pause>>
  \o (IF longPause THEN <<Pause>> ELSE <<>>)

\* one round of the loop of realisticTypeText: typo is Math.random() < 0.05,
\* longPause is Math.random() < 0.1
typeChar(char, typo, longPause) ==
  (IF typo /\ char # 32
   THEN <<TypeEvent(wrongChar(char)), Pause, PressBackspace, Pause, TypeEvent(char)>>
   ELSE <<TypeEvent(char)>>)
  \o <<Pause>>
  \o (IF longPause THEN <<Pause>> ELSE <<>>)

\* HumanBehavior.realisticTypeText: the events of clearing the field and
\* of each character
realisticTypeText(text, typos, longPauses) ==
  [clear |-> <<SelectAll, PressBackspace>>,
   chars |-> [i \in 1..Len(text) |-> typeChar(text[i], typos[i], longPauses[i])]]

\* the input element: its text, and whether all of it is selected
FieldAfter(field, event) ==
  CASE event.op = "type" ->
         [text |-> IF field.selected THEN <<event.char>>
                   ELSE Append(field.text, event.char),
          selected |-> FALSE]
    [] event.op = "press" ->
         [text |-> IF field.selected \/ field.text = <<>> THEN <<>>
                   ELSE SubSeq(field.text, 1, Len(field.text) - 1),
          selected |-> FALSE]
    [] event.op = "selectAll" -> [text |-> field.text, selected |-> TRUE]
    [] OTHER -> field

RECURSIVE FieldAfterAll(_, _)
FieldAfterAll(field, events) ==
  IF events = <<>> THEN field
  ELSE FieldAfterAll(FieldAfter(field, Head(events)), Tail(events))

RECURSIVE Flatten(_)
Flatten(groups) ==
  IF groups = <<>> THEN <<>> ELSE Head(groups) \o Flatten(Tail(groups))

\* config.bot.delayMin and config.bot.delayMax in milliseconds
delayMin == 2000
delayMax == 5000

\* HumanBehavior.generateSessionBehavior, its delay band: the bounds are
\* fractions, kept as numerators over RandomSteps; rMin and rMax are the
\* two values of Math.random()
generateSessionBehavior(rMin, rMax) ==
  [preferredDelayRange |->
     [min |-> delayMin * RandomSteps + rMin * 1000,
      max |-> delayMax * RandomSteps + rMax * 2000]]

\* HumanBehavior.randomDelay() called without arguments by a service whose
\* constructor has stored sessionBehavior: the parameters default to
\* config.bot.delayMin and config.bot.delayMax
randomDelayDefault(sessionBehavior, k) ==
  [sessionBehavior |-> sessionBehavior,
   delay |-> randomDelay(delayMin, delayMax, k)]

\* one call of one of the functions, on any input
InitPure ==
  /\ now = TickMs
  /\ linkedinService = FALSE
  /\ EmailInit
  /\ BotInit
  /\ RunInit
  /\ PageInit
  /\ ReportInit
  /\ SessionInit
  /\ pureDone = FALSE
  /\ pureResult = <<>>
  /\ \/ pureFn = "extractEmails" /\ pureArgs \in Texts
     \/ /\ pureFn = "analyzeJobPost"
        /\ pureArgs \in [callThrows : BOOLEAN, response : Responses]
     \/ /\ pureFn = "generateJobApplicationEmail"
        /\ pureArgs \in [jobData : JobDatas, callThrows : BOOLEAN,
                         emailContent : EmailContents]
     \/ /\ pureFn = "randomDelay"
        /\ pureArgs \in {a \in [min : -1..MaxDelay, max : -1..MaxDelay,
                                k : RandomValues] : a.min <= a.max}
     \/ /\ pureFn = "realisticTypeText"
        /\ pureArgs \in {a \in [text : TypedTexts,
                                typos : UNION {[1..n -> BOOLEAN] : n \in 0..MaxChars},
                                longPauses : UNION {[1..n -> BOOLEAN] : n \in 0..MaxChars},
                                existing : {<<>>, <<98>>}] :
                            /\ Len(a.typos) = Len(a.text)
                            /\ Len(a.longPauses) = Len(a.text)}
     \/ /\ pureFn = "randomDelayDefault"
        /\ pureArgs \in [rMin : RandomValues, rMax : RandomValues, k : RandomValues]
     \/ /\ pureFn = "extractJobPosts"
        /\ pureArgs \in [postContainers :
                            UNION {[1..n -> PostContents] : n \in 0..MaxUnits},
                         searchKeyword : SearchKeywords]

call_extractEmails ==
  /\ pureFn = "extractEmails"
  /\ ~pureDone
  /\ pureResult' = extractEmails(pureArgs)
  /\ pureDone' = TRUE
  /\ UNCHANGED <<pureFn, pureArgs, inFlight, opIdx, movesLeft, report, reportSnap>>
  /\ UNCHANGED sessVars
  /\ UNCHANGED <<now, emailVars, botVars, runVars>>

call_analyzeJobPost ==
  /\ pureFn = "analyzeJobPost"
  /\ ~pureDone
  /\ pureResult' = analyzeJobPost(pureArgs.callThrows, pureArgs.response)
  /\ pureDone' = TRUE
  /\ UNCHANGED <<pureFn, pureArgs, inFlight, opIdx, movesLeft, report, reportSnap>>
  /\ UNCHANGED sessVars
  /\ UNCHANGED <<now, emailVars, botVars, runVars>>

call_generateJobApplicationEmail ==
  /\ pureFn = "generateJobApplicationEmail"
  /\ ~pureDone
  /\ pureResult' = generateJobApplicationEmail(pureArgs.jobData, pureArgs.callThrows,
                                             pureArgs.emailContent)
  /\ pureDone' = TRUE
  /\ UNCHANGED <<pureFn, pureArgs, inFlight, opIdx, movesLeft, report, reportSnap>>
  /\ UNCHANGED sessVars
  /\ UNCHANGED <<now, emailVars, botVars, runVars>>

call_randomDelay ==
  /\ pureFn = "randomDelay"
  /\ ~pureDone
  /\ pureResult' = randomDelay(pureArgs.min, pureArgs.max, pureArgs.k)
  /\ pureDone' = TRUE
  /\ UNCHANGED <<pureFn, pureArgs, inFlight, opIdx, movesLeft, report, reportSnap>>
  /\ UNCHANGED sessVars
  /\ UNCHANGED <<now, emailVars, botVars, runVars>>

call_extractJobPosts ==
  /\ pureFn = "extractJobPosts"
  /\ ~pureDone
  /\ pureResult' = extractJobPosts(pureArgs.postContainers, pureArgs.searchKeyword)
  /\ pureDone' = TRUE
  /\ UNCHANGED <<pureFn, pureArgs, inFlight, opIdx, movesLeft, report, reportSnap>>
  /\ UNCHANGED sessVars
  /\ UNCHANGED <<now, emailVars, botVars, runVars>>

call_realisticTypeText ==
  /\ pureFn = "realisticTypeText"
  /\ ~pureDone
  /\ pureResult' = realisticTypeText(pureArgs.text, pureArgs.typos, pureArgs.longPauses)
  /\ pureDone' = TRUE
  /\ UNCHANGED <<pureFn, pureArgs, inFlight, opIdx, movesLeft, report, reportSnap>>
  /\ UNCHANGED sessVars
  /\ UNCHANGED <<now, emailVars, botVars, runVars>>

\* the LinkedInService constructor, then a delay without arguments
call_randomDelayDefault ==
  /\ pureFn = "randomDelayDefault"
  /\ ~pureDone
  /\ pureResult' = randomDelayDefault(
                      generateSessionBehavior(pureArgs.rMin, pureArgs.rMax), pureArgs.k)
  /\ pureDone' = TRUE
  /\ UNCHANGED <<pureFn, pureArgs, inFlight, opIdx, movesLeft, report, reportSnap>>
  /\ UNCHANGED sessVars
  /\ UNCHANGED <<now, emailVars, botVars, runVars>>

NextPure ==
  \/ call_extractEmails
  \/ call_analyzeJobPost
  \/ call_generateJobApplicationEmail
  \/ call_randomDelay
  \/ call_extractJobPosts
  \/ call_randomDelayDefault
  \/ call_realisticTypeText

SpecPure == InitPure /\ [][NextPure]_vars

\* --------------------------------------------------- the session report
\* calls of generateSessionReport explored
MaxReports == 2

\* the counters of a session that has processed its candidates
SessionStats ==
  {[found |-> 0, processed |-> 0, withEmails |-> 0, emailsSent |-> 0, errors |-> 0],
   [found |-> 2, processed |-> 1, withEmails |-> 2, emailsSent |-> 0, errors |-> 1]}

\* EmailService.getEmailStats with new Date() = t: the length of the
\* sent-emails file of the day; a missing file and an error of the file
\* system both give the zero counts
getEmailStats(file, t, readOk) ==
  IF readOk /\ Len(file[dayOf(t)]) > 0
  THEN [todayCount |-> Len(file[dayOf(t)]),
        remaining |-> IF maxApplicationsPerDay - Len(file[dayOf(t)]) > 0
                      THEN maxApplicationsPerDay - Len(file[dayOf(t)])
                      ELSE 0]
  ELSE [todayCount |-> 0, remaining |-> maxApplicationsPerDay]

\* the report object built by generateSessionReport
SessionReport(jobs, emailStats) ==
  [made |-> TRUE, found |-> jobs.found, processed |-> jobs.processed,
   withEmails |-> jobs.withEmails, emailsSent |-> jobs.emailsSent,
   errors |-> jobs.errors, todayCount |-> emailStats.todayCount,
   remaining |-> emailStats.remaining]

\* history: this call follows a call that returned a report, on the same
\* day, with the counters and the day's file as they were then, and both
\* calls could read the file
Repeats(readOk) ==
  /\ report.made
  /\ reportSnap.readOk
  /\ readOk
  /\ reportSnap.stats = stats
  /\ reportSnap.day = dayOf(now)
  /\ reportSnap.log = sentEmailsFile[dayOf(now)]

\* a variant that files the report with the sent emails of the day
generateSessionReport_callLogsItself ==
  /\ reportSnap.n < MaxReports
  /\ \E readOk \in BOOLEAN, writeOk \in BOOLEAN :
       /\ report' = IF writeOk
                    THEN SessionReport(stats, getEmailStats(sentEmailsFile, now, readOk))
                    ELSE NoReport
       /\ sentEmailsFile' = saveSentEmail(sentEmailsFile, now, writeOk)
       /\ reportSnap' = [n |-> reportSnap.n + 1, day |-> dayOf(now),
                         log |-> sentEmailsFile[dayOf(now)], stats |-> stats,
                         readOk |-> readOk, repeat |-> Repeats(readOk) /\ writeOk]
  /\ UNCHANGED <<pureFn, pureArgs, pureResult, pureDone, inFlight, opIdx, movesLeft>>
  /\ UNCHANGED sessVars
  /\ UNCHANGED <<botVars, runVars>>
  /\ UNCHANGED <<now, dailyEmailCount, lastEmailTime, isInitialized, isGmailLoggedIn,
                 gmailPage, linkedinService, calls, nextAllowedTime, restarts,
                 recordedOn, recordedEver, successCount, straddled, lastRecordAt,
                 lastRecordEver>>

\* LinkedInBot.generateSessionReport: getEmailStats, the report object, the
\* report file; an error while writing is caught and null is returned
generateSessionReport_call ==
  /\ reportSnap.n < MaxReports
  /\ \E readOk \in BOOLEAN, writeOk \in BOOLEAN :
       /\ report' = IF writeOk
                    THEN SessionReport(stats, getEmailStats(sentEmailsFile, now, readOk))
                    ELSE NoReport
       /\ sentEmailsFile' = sentEmailsFile
       /\ reportSnap' = [n |-> reportSnap.n + 1, day |-> dayOf(now),
                         log |-> sentEmailsFile[dayOf(now)], stats |-> stats,
                         readOk |-> readOk, repeat |-> Repeats(readOk) /\ writeOk]
  /\ UNCHANGED <<pureFn, pureArgs, pureResult, pureDone, inFlight, opIdx, movesLeft>>
  /\ UNCHANGED sessVars
  /\ UNCHANGED <<botVars, runVars>>
  /\ UNCHANGED <<now, dailyEmailCount, lastEmailTime, isInitialized, isGmailLoggedIn,
                 gmailPage, linkedinService, calls, nextAllowedTime, restarts,
                 recordedOn, recordedEver, successCount, straddled, lastRecordAt,
                 lastRecordEver>>

\* a session whose candidates have been processed, with any counters, and
\* its EmailService
InitReport ==
  /\ now = TickMs
  /\ linkedinService = TRUE
  /\ EmailInit
  /\ botPc = "done"
  /\ jobsWithEmails = <<>>
  /\ idx = 1
  /\ stats \in SessionStats
  /\ shouldStop = FALSE
  /\ lastDecision = NoDecision
  /\ permittedActionable = 0
  /\ sendInvocations = 0
  /\ RunInit
  /\ AuxInit

\* reports, with sends and the passing of time between them
NextReport ==
  \/ Tick
  \/ EmailService_initialize
  \/ sendJobApplicationEmail
  \/ generateSessionReport_call

SpecReport == InitReport /\ [][NextReport]_vars

\* ------------------------------------------------------- later claims
\* C21: at most one initiator (the orchestrator, the page load handler, a
\* cleanup) has an operation under way on the LinkedIn page
C21_OneOperationAtATime ==
  Cardinality({i \in Initiators : inFlight[i] \notin {"none", "closed"}}) <= 1

\* the order of the feed: by keyword, then by position on the keyword's page
Before(a, b) ==
  \/ a.searchKeyword < b.searchKeyword
  \/ a.searchKeyword = b.searchKeyword /\ a.postIndex < b.postIndex

InFeedOrder(jobs) ==
  \A i, j \in 1..Len(jobs) : i < j => Before(jobs[i], jobs[j])

HasAddresses(job) == job.hasEmails

\* C22: keywords are searched in the configured order, allJobs is the
\* concatenation in keyword order of each keyword's posts in page order,
\* and the posts with addresses are processed in that same order, one
\* after the other
C22_FeedOrder ==
  /\ [](/\ InFeedOrder(allJobs)
        /\ \A i \in 1..Len(allJobs) : allJobs[i].searchKeyword < kw
        /\ runPc = "processing" =>
             /\ jobsWithEmails = SelectSeq(allJobs, HasAddresses)
             /\ InFeedOrder(jobsWithEmails))
  /\ [][/\ kw' # kw => kw' = kw + 1 \/ kw' = 1
        /\ idx' # idx => idx' = idx + 1 \/ (idx' = 1 /\ botPc' = "loop")
        /\ (botPc = "loop" /\ botPc' = "analyzing") => idx' = idx]_vars

C22_Witness ==
  /\ runPc = "processing"
  /\ botPc = "analyzing"
  /\ idx = 2
  /\ Len(allJobs) = 2
  /\ allJobs[1].searchKeyword = 1
  /\ allJobs[2].searchKeyword = 2

\* C30: while a challenge signal met during the search stands without a
\* wait and a re-check, no further keyword has been searched
C30_SearchChallengeRecovers ==
  hist.searchChallenge # 0 => kw <= hist.searchChallenge + 1

\* C23: a job application send whose compose-and-send failed appends a
\* record to the sent-emails file of the day
C23_FailedSendIsRecorded ==
  [][(/\ calls[1].pc = "composing"
      /\ calls[1].kind = "job"
      /\ calls'[1].outcome = "composeFailed")
       => Len(sentEmailsFile'[dayOf(now')]) = Len(sentEmailsFile[dayOf(now)]) + 1]_vars

\* config.bot.cooldownBetweenActions in milliseconds (default 3000); no
\* method of EmailService reads it
cooldownBetweenActions == 3000

\* C28: once cooldownBetweenActions (3 seconds) have passed since the
\* recorded send and the daily limit is not reached, canSendEmail is true
C28_ThreeSecondCooldown ==
  (/\ lastEmailTime # 0
   /\ now - lastEmailTime >= cooldownBetweenActions
   /\ dayOf(lastEmailTime) = dayOf(now)
   /\ dailyEmailCount < maxApplicationsPerDay)
    => canSendEmail(dailyEmailCount, lastEmailTime, now)

\* C24: the addresses extractEmails returns are pairwise different under
\* case-insensitive comparison, and none of them is a no-reply address
C24_ExtractedAddressesDistinct ==
  (pureFn = "extractEmails" /\ pureDone)
    => /\ \A i, j \in 1..Len(pureResult) :
            i # j => toLowerCase(pureResult[i]) # toLowerCase(pureResult[j])
       /\ \A i \in 1..Len(pureResult) : notDenied(pureResult[i])

\* the error paths of analyzeJobPost: the call throws, or its answer is
\* no JSON
AnalysisFails(args) == args.callThrows \/ ~args.response.parses

\* C25: when the analysis call throws or its answer cannot be parsed,
\* analyzeJobPost does not throw and returns the default (isLegitimate
\* true, relevanceScore 5), which the relevance gate lets through
C25_AnalysisFailureGivesDefault ==
  (pureFn = "analyzeJobPost" /\ pureDone /\ AnalysisFails(pureArgs))
    => /\ ~pureResult.threw
       /\ ~pureResult.value.isNull
       /\ pureResult.value.analysis.isLegitimate
       /\ pureResult.value.analysis.relevanceScore = 5
       /\ ~SkippedByGate(pureResult.value.analysis)

C25_Witness ==
  /\ pureFn = "analyzeJobPost"
  /\ pureDone
  /\ pureArgs.callThrows
  /\ pureResult.value.analysis.relevanceScore = 5

\* the generation fails: generateContent throws, or its text cannot be
\* parsed
GenerationFails(args) ==
  args.callThrows \/ parseEmailResponse(args.emailContent).threw

\* C26: when the generation fails, generateJobApplicationEmail does not
\* throw and returns the fallback email of the job, isFallback true
C26_GenerationFailureGivesFallback ==
  (pureFn = "generateJobApplicationEmail" /\ pureDone /\ GenerationFails(pureArgs))
    => /\ ~pureResult.threw
       /\ pureResult.value.isFallback
       /\ pureResult.value = getFallbackEmail(pureArgs.jobData)

C26_Witness ==
  /\ pureFn = "generateJobApplicationEmail"
  /\ pureDone
  /\ pureArgs.callThrows
  /\ pureResult.value.isFallback

\* C29: the duration randomDelay chooses lies between min and max, and
\* some value of Math.random() gives min and some value gives max
C29_RandomDelayInRange ==
  (pureFn = "randomDelay" /\ pureDone)
    => /\ pureResult \in pureArgs.min..pureArgs.max
       /\ \E k \in RandomValues :
            randomDelay(pureArgs.min, pureArgs.max, k) = pureArgs.min
       /\ \E k \in RandomValues :
            randomDelay(pureArgs.min, pureArgs.max, k) = pureArgs.max

C29_Witness ==
  /\ pureFn = "randomDelay"
  /\ pureDone
  /\ pureArgs.min < pureArgs.max
  /\ pureResult = pureArgs.max

\* C27: a report generated again on the same day, with the counters and
\* the day's sent-emails file as they were at the report before, has the
\* same aggregate counts, and generating it changes neither the counters
\* nor the file
C27_ReportIsIdempotent ==
  /\ [](reportSnap.repeat => /\ report.made
                             /\ report.found = stats.found
                             /\ report.todayCount = Len(reportSnap.log))
  /\ [][reportSnap'.n # reportSnap.n
          => /\ stats' = stats
             /\ sentEmailsFile' = sentEmailsFile
             /\ dailyEmailCount' = dailyEmailCount
             /\ reportSnap'.repeat => report' = report]_vars

C27_Witness ==
  /\ reportSnap.repeat
  /\ reportSnap.n = 2
  /\ report.todayCount = 1
  /\ report.found = 2

\* the rule of the feed: the text is not empty, holds a job indicator, and
\* holds the keyword in any letter case or is longer than 100 characters
KeptByRule(content, keyword) ==
  /\ contentLength(content) > 0
  /\ \E indicator \in jobIndicators :
       phraseIncludes(lowerPhrase(content.phrase), indicator)
  /\ \/ \E written \in {"React", "react", "REACT"} :
          /\ lowerPhrase(written) = lowerPhrase(keyword)
          /\ phraseIncludes(content.phrase, written)
     \/ contentLength(content) >= 101

\* C31: of the first maxSearchResults posts of a page, exactly those that
\* meet the rule are kept, in page order; no other post is kept
C31_KeptIffRelevant ==
  (pureFn = "extractJobPosts" /\ pureDone)
    => /\ \A i \in 1..Len(pureArgs.postContainers) :
            (i <= maxSearchResults
               /\ KeptByRule(pureArgs.postContainers[i], pureArgs.searchKeyword))
            <=> \E j \in 1..Len(pureResult) : pureResult[j].postIndex = i
       /\ \A j \in 1..Len(pureResult) :
            /\ pureResult[j].postIndex \in 1..Len(pureArgs.postContainers)
            /\ pureResult[j].content = pureArgs.postContainers[pureResult[j].postIndex]
       /\ Len(pureResult) <= maxSearchResults

C31_Witness ==
  /\ pureFn = "extractJobPosts"
  /\ pureDone
  /\ Len(pureArgs.postContainers) = 2
  /\ pureArgs.searchKeyword = "react"
  /\ pureArgs.postContainers[1] = [phrase |-> "hiring React", pad |-> 0]
  /\ Len(pureResult) = 1

\* C32: every typo of realisticTypeText is one wrong character, a pause,
\* one Backspace, a pause and the right character, and the field holds the
\* text that was to be typed once the call is over
C32_TypedTextIsTheInput ==
  (pureFn = "realisticTypeText" /\ pureDone)
    => /\ FieldAfterAll([text |-> pureArgs.existing, selected |-> FALSE],
                        pureResult.clear \o Flatten(pureResult.chars)).text
            = pureArgs.text
       /\ \A i \in 1..Len(pureArgs.text) :
            LET events == pureResult.chars[i]
                char == pureArgs.text[i]
            IN  IF pureArgs.typos[i] /\ char # 32
                THEN /\ Len(events) >= 5
                     /\ events[1].op = "type" /\ events[1].char # char
                     /\ events[2].op = "pause"
                     /\ events[3].op = "press"
                     /\ events[4].op = "pause"
                     /\ events[5] = TypeEvent(char)
                     /\ \A k \in 6..Len(events) : events[k].op = "pause"
                ELSE /\ events[1] = TypeEvent(char)
                     /\ \A k \in 2..Len(events) : events[k].op = "pause"

C32_Witness ==
  /\ pureFn = "realisticTypeText"
  /\ pureDone
  /\ pureArgs.text = <<97, 98>>
  /\ pureArgs.typos = <<TRUE, TRUE>>
  /\ pureArgs.existing = <<98>>

\* C33: a delay asked for without arguments lies in the delay band of the
\* session's profile
C33_ProfileGivesDefaults ==
  (pureFn = "randomDelayDefault" /\ pureDone)
    => /\ pureResult.delay * RandomSteps >= pureResult.sessionBehavior.preferredDelayRange.min
       /\ pureResult.delay * RandomSteps <= pureResult.sessionBehavior.preferredDelayRange.max

\* C35: once stop() has returned for a session that was processing when it
\* was called, the cleanup of that session is not still under way with
\* nothing closed yet
C35_StopReturnsAfterRelease ==
  (stopPc = "returned" /\ hist.stopBegun # NoStop)
    => ~(runPc = "cleanup" /\ hist.pageCloses = 0 /\ hist.browserCloses = 0)

\* C37: the counters of the session satisfy processed + errors <=
\* withEmails <= found
C37_CountersAreOrdered ==
  /\ stats.processed + stats.errors <= stats.withEmails
  /\ stats.withEmails <= stats.found

\* C39: a page that the first check of login would take as a success
\* (successIndicators) is taken as a resolved challenge by the re-check,
\* and the service is then logged in
C39_RecheckAcceptsWhatLoginAccepts ==
  (hist.rechecks > 0 /\ successIndicators(hist.recheckSaw)) => isLoggedIn

\* C40: when initialize() has failed and the process has exited, no
\* browser launched by it is left open
C40_FailedInitializeClosesBrowser ==
  runPc = "exited" => (browser # "open" /\ page # "open")

\* C36: with two sends in flight at once, no more than
\* maxApplicationsPerDay sends are recorded on a day and the count never
\* exceeds the limit, and a send is never recorded less than the cooldown
\* after the send recorded before it
C36_LimitHoldsWhenSendsOverlap ==
  /\ [](/\ dailyEmailCount <= maxApplicationsPerDay
        /\ \A d \in Days : recordedOn[d] <= maxApplicationsPerDay)
  /\ [][(successCount' = successCount + 1 /\ lastRecordAt # 0)
          => lastRecordAt' - lastRecordAt >= CooldownMs]_vars

\* the first start() has not reached its finally block
FirstRunGoesOn ==
  runPc \in {"login", "challengeWait", "loggedIn", "searching", "searched",
             "processing", "finally"}

\* C34: a start() called while the session runs leaves that session as it
\* is: until the session's own finally block, isRunning is true, no end
\* time is set and neither the page nor the browser is closed
C34_SecondStartChangesNothing ==
  (againPc # "idle" /\ FirstRunGoesOn)
    => /\ isRunning
       /\ session.endTime = 0
       /\ page # "closed"
       /\ browser # "closed"

\* C38: the duration in the report of a session that has ended is the end
\* time of the session minus its start time
C38_ReportedDurationIsElapsed ==
  (runPc = "returned" /\ session.reported # NoDuration)
    => session.reported = session.endTime - session.startTime

=============================================================================
